---- MODULE Spec2Model ----
(***************************************************************************)
(* Numeral-base conversion engine (bases 2..16).                           *)
(*                                                                         *)
(* Two implementations of the engine are modelled side by side:            *)
(*   - src/conversion_numerica.py        (convertir and its helpers)       *)
(*   - src/backend/app/services/number_conversion.py                       *)
(*                                       (NumberConversionService)         *)
(*                                                                         *)
(* A Python str is a sequence of one-character strings.  A Fraction is a   *)
(* record [num, den] with den > 0; it is compared by value.  A call that   *)
(* raises is a record with ok = FALSE and the kind of the error raised.    *)
(***************************************************************************)
EXTENDS Integers, Sequences, FiniteSets, TLC

VARIABLES numero, base_origen, base_destino, precision, pc, cli, svc

(* State of the interleaved calls: the process-wide symbol tables, and per
   caller the position of its call, the local `numero` and the outcome. *)
VARIABLES tables, frames, locals, remembered

(* State of one run of the digit loops, and of one request to the endpoint. *)
VARIABLES loop, api

engineVars == <<numero, base_origen, base_destino, precision, pc, cli, svc>>
callVars == <<tables, frames, locals, remembered>>

vars == <<numero, base_origen, base_destino, precision, pc, cli, svc,
          tables, frames, locals, remembered, loop, api>>

(***************************************************************************)
(* Bounds of the model.                                                    *)
(***************************************************************************)
MaxLen == 3
MaxPrecision == 2

(* Characters the exhaustively enumerated numerals are built from. *)
Alphabet == {"0", "1", "7", "8", ".", " "}

(* Bases a call is made with: 1 and 17 are outside [2,16]. *)
Bases == {1, 2, 8, 10, 16, 17}

(* 5 is the precision of the documented scenario convert("10.1", 2, 10, 5) *)
Precisions == (0..MaxPrecision) \cup {5}

RECURSIVE SeqsUpTo(_, _)
SeqsUpTo(S, n) ==
    IF n = 0 THEN {<<>>}
    ELSE LET shorter == SeqsUpTo(S, n - 1)
         IN  shorter \cup {Append(s, c) : s \in {t \in shorter : Len(t) = n - 1}, c \in S}

(* Numerals of the documented scenarios and of the corner cases of the code. *)
Scenarios ==
    { <<"1","0","1","0">>, <<"2","B","8">>, <<"1","0",".","1">>, <<"F","F">>,
      <<"9">>, <<" ">>, <<" "," ">>, <<" ","1"," ">>, <<"1"," ","1">>,
      <<"f","f",",","8">>, <<" ","f","f",",","8"," ">>, <<"F","F",".","8">>,
      <<"B","1">>, <<"0","B","1">>, <<"-","1">>, <<"G">>, <<"1",",","1">>,
      <<"1","1","1"," ","1","1">>, <<"0","0","0","1",".","1","0","0","0">>,
      <<"1",",","1",".","1">>, <<"1",",",",","1">> }

Numerals == SeqsUpTo(Alphabet, MaxLen) \cup Scenarios

(***************************************************************************)
(* Python str helpers.                                                     *)
(***************************************************************************)
Whitespace == {" "}

RECURSIVE lstrip(_, _)
lstrip(s, chars) ==
    IF s = <<>> THEN <<>>
    ELSE IF Head(s) \in chars THEN lstrip(Tail(s), chars) ELSE s

RECURSIVE rstrip(_, _)
rstrip(s, chars) ==
    IF s = <<>> THEN <<>>
    ELSE IF s[Len(s)] \in chars THEN rstrip(SubSeq(s, 1, Len(s) - 1), chars) ELSE s

strip(s) == rstrip(lstrip(s, Whitespace), Whitespace)

upper_char(ch) ==
    CASE ch = "a" -> "A" [] ch = "b" -> "B" [] ch = "c" -> "C"
      [] ch = "d" -> "D" [] ch = "e" -> "E" [] ch = "f" -> "F"
      [] ch = "g" -> "G" [] OTHER -> ch

upper(s) == [i \in 1..Len(s) |-> upper_char(s[i])]

replace_comma(s) == [i \in 1..Len(s) |-> IF s[i] = "," THEN "." ELSE s[i]]

reversed(s) == [i \in 1..Len(s) |-> s[Len(s) + 1 - i]]

(* s * n for a one-character s *)
repeat(ch, n) == [i \in 1..n |-> ch]

(* index of the first "." in s, 0 when there is none *)
RECURSIVE find_dot(_, _)
find_dot(s, i) ==
    IF i > Len(s) THEN 0
    ELSE IF s[i] = "." THEN i ELSE find_dot(s, i + 1)

RECURSIVE pow(_, _)
pow(b, e) == IF e = 0 THEN 1 ELSE b * pow(b, e - 1)

(***************************************************************************)
(* Outcomes of a call.                                                     *)
(***************************************************************************)
Ok(v) == [ok |-> TRUE, val |-> v, err |-> "none"]
Raise(kind) == [ok |-> FALSE, val |-> <<>>, err |-> kind]

(* An outcome together with the branch of the orchestrator that produced it *)
Via(path, r) == [ok |-> r.ok, val |-> r.val, err |-> r.err, path |-> path]

(* Fraction *)
Fraction(n, d) == [num |-> n, den |-> d]

(***************************************************************************)
(* src/conversion_numerica.py                                              *)
(***************************************************************************)
SYMBOLS == <<"0","1","2","3","4","5","6","7","8","9","A","B","C","D","E","F">>

SYMBOL_TO_VAL == [ch \in {SYMBOLS[i] : i \in 1..Len(SYMBOLS)} |->
                    (CHOOSE i \in 1..Len(SYMBOLS) : SYMBOLS[i] = ch) - 1]

limpiar_numero(s) == replace_comma(upper(strip(s)))

(* TRUE when validar_base returns, FALSE when it raises *)
validar_base(b) == 2 <= b /\ b <= 16

(* valor_simbolo raises exactly when ch is not a key of SYMBOL_TO_VAL *)
valor_simbolo_ok(ch) == ch \in DOMAIN SYMBOL_TO_VAL
valor_simbolo(ch) == SYMBOL_TO_VAL[ch]

simbolo_valor_ok(v) == 0 <= v /\ v < Len(SYMBOLS)
simbolo_valor(v) == SYMBOLS[v + 1]

separar_partes(num) ==
    LET k == find_dot(num, 1)
    IN  IF k > 0
        THEN [ent |-> SubSeq(num, 1, k - 1), frac |-> SubSeq(num, k + 1, Len(num))]
        ELSE [ent |-> num, frac |-> <<>>]

(* int(g, 2) for g made of the characters "0" and "1" only *)
RECURSIVE bin_value(_)
bin_value(g) ==
    IF g = <<>> THEN 0
    ELSE 2 * bin_value(SubSeq(g, 1, Len(g) - 1)) + (IF g[Len(g)] = "1" THEN 1 ELSE 0)

(* [bits[i:i+tam] for i in range(0, len(bits), tam)] *)
chunks(bits, tam) ==
    [k \in 1..((Len(bits) + tam - 1) \div tam) |->
        SubSeq(bits, (k - 1) * tam + 1, IF k * tam < Len(bits) THEN k * tam ELSE Len(bits))]

agrupar_binario(bits, tam, izquierda) ==
    IF bits = <<>> THEN <<>>
    ELSE LET resto == Len(bits) % tam
         IN  IF izquierda
             THEN chunks(IF resto # 0 THEN repeat("0", tam - resto) \o bits ELSE bits, tam)
             ELSE chunks(IF resto # 0 THEN bits \o repeat("0", tam - resto) ELSE bits, tam)

(* "".join(simbolo_valor(int(g, 2)) for g in grupos) *)
grupos_a_digitos(grupos) == [k \in 1..Len(grupos) |-> simbolo_valor(bin_value(grupos[k]))]

or_zero(s) == IF s = <<>> THEN <<"0">> ELSE s

(* out = out_ent, plus "." + out_frac when out_frac stripped of its right zeros is not empty *)
unir_partes(out_ent, out_frac) ==
    IF out_frac # <<>> /\ rstrip(out_frac, {"0"}) # <<>>
    THEN out_ent \o <<".">> \o rstrip(out_frac, {"0"})
    ELSE out_ent

bin_to_base_direct(num, base_dest) ==
    LET tam == IF base_dest = 8 THEN 3 ELSE 4
        p == separar_partes(num)
        ent == or_zero(p.ent)
        frac == p.frac
        all == ent \o frac
    IN  IF \E i \in 1..Len(all) : all[i] \notin {"0", "1"}
        THEN Raise("InvalidBinary")
        ELSE LET grupos_ent == agrupar_binario(ent, tam, TRUE)
                 grupos_frac == agrupar_binario(frac, tam, FALSE)
                 out_ent == or_zero(lstrip(or_zero(grupos_a_digitos(grupos_ent)), {"0"}))
                 out_frac == grupos_a_digitos(grupos_frac)
             IN  Ok(unir_partes(out_ent, out_frac))

(* format(v, "0{tam}b"): binary digits of v, left-padded with zeros to width tam *)
RECURSIVE to_bits(_)
to_bits(v) == IF v < 2 THEN <<IF v = 1 THEN "1" ELSE "0">>
              ELSE to_bits(v \div 2) \o <<IF v % 2 = 1 THEN "1" ELSE "0">>

(* format(v, "b") without the zero padding to the width *)
format_bits_unpadded(v, tam) == to_bits(v)

format_bits(v, tam) ==
    LET b == to_bits(v)
    IN  IF Len(b) < tam THEN repeat("0", tam - Len(b)) \o b ELSE b

RECURSIVE concat_bits(_, _)
concat_bits(s, tam) ==
    IF s = <<>> THEN <<>>
    ELSE format_bits(valor_simbolo(Head(s)), tam) \o concat_bits(Tail(s), tam)

(* The error raised by the first character, in visiting order, that fails
   valor_simbolo or the v >= base test; "none" when every character passes.
   Characters of skip are not looked at. *)
RECURSIVE first_digit_error(_, _, _)
first_digit_error(s, base, skip) ==
    IF s = <<>> THEN "none"
    ELSE IF Head(s) \in skip THEN first_digit_error(Tail(s), base, skip)
    ELSE IF ~valor_simbolo_ok(Head(s)) THEN "InvalidDigit"
    ELSE IF valor_simbolo(Head(s)) >= base THEN "DigitOutOfRange"
    ELSE first_digit_error(Tail(s), base, skip)

base_to_bin_direct(num, base_src) ==
    LET tam == IF base_src = 8 THEN 3 ELSE 4
        p == separar_partes(num)
        e == first_digit_error(p.ent \o p.frac, base_src, {"."})
    IN  IF e # "none" THEN Raise(e)
        ELSE IF \E i \in 1..Len(p.frac) : ~valor_simbolo_ok(p.frac[i])
        THEN Raise("InvalidDigit")
        ELSE LET out_ent == or_zero(lstrip(or_zero(concat_bits(p.ent, tam)), {"0"}))
                 out_frac == concat_bits(p.frac, tam)
             IN  Ok(unir_partes(out_ent, out_frac))

(* int_value with the powers counted from the left digit *)
RECURSIVE int_value_from_left(_, _)
int_value_from_left(s, base) ==
    IF s = <<>> THEN 0
    ELSE int_value_from_left(Tail(s), base) * base + valor_simbolo(Head(s))

(* sum of valor_simbolo(d) * base^i over the digits, i counted from the right *)
RECURSIVE int_value(_, _)
int_value(s, base) ==
    IF s = <<>> THEN 0
    ELSE int_value(SubSeq(s, 1, Len(s) - 1), base) * base + valor_simbolo(s[Len(s)])

a_decimal_fraction(num0, base_src) ==
    LET num == limpiar_numero(num0)
        p == separar_partes(num)
        e == first_digit_error(reversed(p.ent) \o p.frac, base_src, {})
    IN  IF e # "none" THEN [ok |-> FALSE, val |-> Fraction(0, 1), err |-> e]
        ELSE LET val_ent == int_value(p.ent, base_src)
                 den == pow(base_src, Len(p.frac))
                 val_frac == Fraction(int_value(p.frac, base_src), den)
             IN  [ok |-> TRUE, val |-> Fraction(val_ent * den + val_frac.num, den), err |-> "none"]

(* the digits in the order they are appended, without reversed() *)
RECURSIVE int_digits_as_appended(_, _)
int_digits_as_appended(ent, base) ==
    IF ent = 0 THEN <<>>
    ELSE <<simbolo_valor(ent % base)>> \o int_digits_as_appended(ent \div base, base)

(* digits.append(simbolo_valor(ent % base)); ent //= base, then reversed *)
RECURSIVE int_digits(_, _)
int_digits(ent, base) ==
    IF ent = 0 THEN <<>>
    ELSE int_digits(ent \div base, base) \o <<simbolo_valor(ent % base)>>

(* frac_loop with the test count <= precision: one digit too many *)
RECURSIVE frac_loop_one_more(_, _, _, _, _)
frac_loop_one_more(frnum, den, base, count, prec) ==
    IF frnum # 0 /\ count <= prec
    THEN LET d == (frnum * base) \div den
         IN  <<simbolo_valor(d)>> \o frac_loop_one_more((frnum * base) % den, den, base, count + 1, prec)
    ELSE <<>>

(* while fr != 0 and count < precision: the remainder fr is frnum / den *)
RECURSIVE frac_loop(_, _, _, _, _)
frac_loop(frnum, den, base, count, prec) ==
    IF frnum # 0 /\ count < prec
    THEN LET d == (frnum * base) \div den
         IN  <<simbolo_valor(d)>> \o frac_loop((frnum * base) % den, den, base, count + 1, prec)
    ELSE <<>>

desde_decimal_fraction(value, base_dest, prec) ==
    LET ent == value.num \div value.den
        frnum == value.num - ent * value.den
        out_ent == IF ent = 0 THEN <<"0">> ELSE int_digits(ent, base_dest)
        out_frac == frac_loop(frnum, value.den, base_dest, 0, prec)
    IN  IF out_frac = <<>> THEN out_ent ELSE out_ent \o <<".">> \o out_frac

(* convertir without the two direct branches *)
cli_path_general_only(bo, bd) == "general"

(* the branch of convertir that runs for a pair of bases *)
cli_path(bo, bd) ==
    IF bo = 2 /\ bd \in {8, 16} THEN "bin_to_base_direct"
    ELSE IF bd = 2 /\ bo \in {8, 16} THEN "base_to_bin_direct"
    ELSE "general"

(* the last two lines of convertir: origin -> decimal -> destination *)
cli_general(num, bo, bd, prec) ==
    LET dec == a_decimal_fraction(num, bo)
    IN  IF dec.ok THEN Ok(desde_decimal_fraction(dec.val, bd, prec)) ELSE Raise(dec.err)

convertir(num0, bo, bd, prec) ==
    IF ~validar_base(bo) \/ ~validar_base(bd) THEN Via("none", Raise("InvalidBase"))
    ELSE LET num == limpiar_numero(num0)
             path == cli_path(bo, bd)
         IN  IF path = "bin_to_base_direct" THEN Via(path, bin_to_base_direct(num, bd))
             ELSE IF path = "base_to_bin_direct" THEN Via(path, base_to_bin_direct(num, bo))
             ELSE Via(path, cli_general(num, bo, bd, prec))

(***************************************************************************)
(* src/backend/app/services/number_conversion.py                           *)
(***************************************************************************)
_clean_number(s) == replace_comma(upper(strip(s)))

(* TRUE when _validate_base returns, FALSE when it raises *)
_validate_base(b) == 2 <= b /\ b <= 16

(* _symbol_value raises exactly when ch is not a key of SYMBOL_TO_VAL *)
_symbol_value_ok(ch) == ch \in DOMAIN SYMBOL_TO_VAL
_symbol_value(ch) == SYMBOL_TO_VAL[ch]

_value_symbol_ok(val) == 0 <= val /\ val <= 15
_value_symbol(val) == SYMBOLS[val + 1]

(* split(".") keeping only what lies between the first and the second "." as fraction *)
_separate_parts_up_to_second(num) ==
    LET k == find_dot(num, 1)
        k2 == IF k > 0 THEN find_dot(num, k + 1) ELSE 0
    IN  IF k > 0
        THEN [ent |-> SubSeq(num, 1, k - 1),
              frac |-> SubSeq(num, k + 1, IF k2 > 0 THEN k2 - 1 ELSE Len(num))]
        ELSE [ent |-> num, frac |-> <<>>]

_separate_parts(num) ==
    LET k == find_dot(num, 1)
    IN  IF k > 0
        THEN [ent |-> SubSeq(num, 1, k - 1), frac |-> SubSeq(num, k + 1, Len(num))]
        ELSE [ent |-> num, frac |-> <<>>]

_group_binary(bin_str, group_size) ==
    LET padding == (group_size - (Len(bin_str) % group_size)) % group_size
    IN  chunks(repeat("0", padding) \o bin_str, group_size)

(* Python's int(g, 2): surrounding whitespace is dropped, then an optional
   sign and an optional "0B" prefix are accepted before the binary digits.
   ok = FALSE is the ValueError of int().  ("+" and "_", which int() also
   accepts, occur in no numeral of Numerals.) *)
py_int2(g) ==
    LET t == strip(g)
        signed == t # <<>> /\ Head(t) = "-"
        u == IF signed THEN Tail(t) ELSE t
        prefixed == Len(u) >= 2 /\ u[1] = "0" /\ u[2] = "B"
        d == IF prefixed THEN SubSeq(u, 3, Len(u)) ELSE u
    IN  IF d = <<>> \/ \E i \in 1..Len(d) : d[i] \notin {"0", "1"}
        THEN [ok |-> FALSE, val |-> 0]
        ELSE [ok |-> TRUE, val |-> IF signed THEN 0 - bin_value(d) ELSE bin_value(d)]

(* result += self._value_symbol(int(group, 2)) for each group, left to right *)
RECURSIVE groups_to_digits(_)
groups_to_digits(groups) ==
    IF groups = <<>> THEN Ok(<<>>)
    ELSE LET v == py_int2(Head(groups))
         IN  IF ~v.ok THEN Raise("ValueError")
             ELSE IF ~_value_symbol_ok(v.val) THEN Raise("InvalidValue")
             ELSE LET rest == groups_to_digits(Tail(groups))
                  IN  IF rest.ok THEN Ok(<<_value_symbol(v.val)>> \o rest.val) ELSE rest

_bin_to_base_direct(bin_str, target_base) ==
    IF target_base \in {8, 16}
    THEN LET r == groups_to_digits(_group_binary(bin_str, IF target_base = 8 THEN 3 ELSE 4))
         IN  IF r.ok THEN Ok(or_zero(lstrip(r.val, {"0"}))) ELSE r
    ELSE Raise("UnsupportedDirect")

RECURSIVE symbols_to_bits(_, _)
symbols_to_bits(s, width) ==
    IF s = <<>> THEN <<>>
    ELSE format_bits(_symbol_value(Head(s)), width) \o symbols_to_bits(Tail(s), width)

_base_to_bin_direct(num, source_base) ==
    IF source_base \in {8, 16}
    THEN IF \E i \in 1..Len(num) : ~_symbol_value_ok(num[i])
         THEN Raise("InvalidDigit")
         ELSE Ok(or_zero(lstrip(symbols_to_bits(num, IF source_base = 8 THEN 3 ELSE 4), {"0"})))
    ELSE Raise("UnsupportedDirect")

(* sum of _symbol_value(ch) * base ** i; the digits are not compared with base *)
RECURSIVE digits_value(_, _)
digits_value(s, base) ==
    IF s = <<>> THEN 0
    ELSE digits_value(SubSeq(s, 1, Len(s) - 1), base) * base + _symbol_value(s[Len(s)])

_to_decimal_fraction(num, base) ==
    LET p == _separate_parts(num)
        all == p.ent \o p.frac
    IN  IF \E i \in 1..Len(all) : ~_symbol_value_ok(all[i])
        THEN [ok |-> FALSE, val |-> Fraction(0, 1), err |-> "InvalidDigit"]
        ELSE LET den == pow(base, Len(p.frac))
             IN  [ok |-> TRUE,
                  val |-> Fraction(digits_value(p.ent, base) * den + digits_value(p.frac, base), den),
                  err |-> "none"]

(* the integer loop taking the digit modulo 16 whatever the target base *)
RECURSIVE int_result_of_mod16(_, _)
int_result_of_mod16(temp, target_base) ==
    IF temp = 0 THEN <<>>
    ELSE int_result_of_mod16(temp \div target_base, target_base) \o <<_value_symbol(temp % 16)>>

RECURSIVE int_result_of(_, _)
int_result_of(temp, target_base) ==
    IF temp = 0 THEN <<>>
    ELSE int_result_of(temp \div target_base, target_base) \o <<_value_symbol(temp % target_base)>>

(* the fractional loop without temp_frac *= target_base carried to the next round *)
RECURSIVE frac_result_of_stale(_, _, _, _)
frac_result_of_stale(frnum, den, target_base, left) ==
    IF left = 0 \/ frnum = 0 THEN <<>>
    ELSE <<_value_symbol((frnum * target_base) \div den)>>
         \o frac_result_of_stale(frnum, den, target_base, left - 1)

(* for _ in range(precision): if temp_frac == 0: break ... *)
RECURSIVE frac_result_of(_, _, _, _)
frac_result_of(frnum, den, target_base, left) ==
    IF left = 0 \/ frnum = 0 THEN <<>>
    ELSE <<_value_symbol((frnum * target_base) \div den)>>
         \o frac_result_of((frnum * target_base) % den, den, target_base, left - 1)

_from_decimal_fraction(decimal, target_base, prec) ==
    LET int_part == decimal.num \div decimal.den
        int_result == IF int_part = 0 THEN <<"0">> ELSE int_result_of(int_part, target_base)
        frnum == decimal.num - int_part * decimal.den
        frac_result == frac_result_of(frnum, decimal.den, target_base, prec)
    IN  IF frnum = 0 THEN int_result
        ELSE IF frac_result # <<>> THEN int_result \o <<".">> \o rstrip(frac_result, {"0"})
        ELSE int_result

(* svc_path sending every octal or hexadecimal source with a power-of-two target to the direct routine *)
svc_path_pow2(bo, bd) ==
    IF bo = 2 /\ bd \in {8, 16} THEN "_bin_to_base_direct"
    ELSE IF bd \in {2, 8, 16} /\ bo \in {8, 16} /\ bo # bd THEN "_base_to_bin_direct"
    ELSE "general"

(* the branch of _convert that runs for a pair of bases *)
svc_path(bo, bd) ==
    IF bo = 2 /\ bd \in {8, 16} THEN "_bin_to_base_direct"
    ELSE IF bd = 2 /\ bo \in {8, 16} THEN "_base_to_bin_direct"
    ELSE "general"

(* the last two lines of _convert: origin -> decimal -> destination *)
svc_general(num, bo, bd, prec) ==
    LET dec == _to_decimal_fraction(num, bo)
    IN  IF dec.ok THEN Ok(_from_decimal_fraction(dec.val, bd, prec)) ELSE Raise(dec.err)

_convert(num0, bo, bd, prec) ==
    IF ~_validate_base(bo) \/ ~_validate_base(bd) THEN Via("none", Raise("InvalidBase"))
    ELSE LET num == _clean_number(num0)
             path == svc_path(bo, bd)
         IN  IF path = "_bin_to_base_direct" THEN Via(path, _bin_to_base_direct(num, bd))
             ELSE IF path = "_base_to_bin_direct" THEN Via(path, _base_to_bin_direct(num, bo))
             ELSE Via(path, svc_general(num, bo, bd, prec))

(* _get_algorithm_used returning the bare identifiers, without the performance note *)
_get_algorithm_used_bare(from_base, to_base) ==
    IF (from_base = 2 /\ to_base \in {8, 16}) \/ (to_base = 2 /\ from_base \in {8, 16})
    THEN "direct_bit_grouping"
    ELSE "general_decimal_intermediate"

(* _get_algorithm_used naming the direct path for every pair of distinct powers of two *)
_get_algorithm_used_pow2(from_base, to_base) ==
    IF from_base \in {2, 8, 16} /\ to_base \in {2, 8, 16} /\ from_base # to_base
    THEN "direct_bit_grouping - O(1) performance"
    ELSE "general_decimal_intermediate - O(n) performance"

_get_algorithm_used(from_base, to_base) ==
    IF (from_base = 2 /\ to_base \in {8, 16}) \/ (to_base = 2 /\ from_base \in {8, 16})
    THEN "direct_bit_grouping - O(1) performance"
    ELSE "general_decimal_intermediate - O(n) performance"

(* The outcome of convert_number: the result dictionary's converted_number and
   algorithm_used, with the branch of _convert that produced it, or the kind
   of the BusinessLogicException raised (path is the branch that raised it,
   "none" when the call failed before _convert chose one). *)
(* the class of the exception a failure raises where it occurs: int(group, 2)
   raises ValueError, every raise statement of the service raises
   BusinessLogicException ("none": nothing raised yet) *)
raised_exception(kind) ==
    IF kind = "pending" THEN "none"
    ELSE IF kind = "ValueError" THEN "ValueError"
    ELSE "BusinessLogicException"

(* convert_number without its `except Exception` clause *)
escaping_exception_unwrapped(kind) == raised_exception(kind)

(* except BusinessLogicException: raise; except Exception: raise
   BusinessLogicException(..., operation="number_conversion") *)
escaping_exception(kind) ==
    IF raised_exception(kind) = "ValueError" THEN "BusinessLogicException"
    ELSE raised_exception(kind)

(* the operation every BusinessLogicException of the service is built with *)
escaping_operation(kind) == IF kind = "pending" THEN "none" ELSE "number_conversion"

SvcRaise(kind, path) == [ok |-> FALSE, val |-> <<>>, err |-> kind,
                         algorithm_used |-> "none", path |-> path,
                         exception |-> escaping_exception(kind),
                         operation |-> escaping_operation(kind)]

(* convert_number testing the number for emptiness before the bases *)
convert_number_empty_first(number, from_base, to_base, prec) ==
    IF number = <<>> THEN SvcRaise("EmptyInput", "none")
    ELSE IF ~_validate_base(from_base) \/ ~_validate_base(to_base) THEN SvcRaise("InvalidBase", "none")
    ELSE LET converted_number == _convert(_clean_number(number), from_base, to_base, prec)
         IN  IF converted_number.ok
             THEN [ok |-> TRUE, val |-> converted_number.val, err |-> "none",
                   algorithm_used |-> _get_algorithm_used(from_base, to_base),
                   path |-> converted_number.path]
             ELSE SvcRaise(converted_number.err, converted_number.path)

convert_number(number, from_base, to_base, prec) ==
    IF ~_validate_base(from_base) \/ ~_validate_base(to_base) THEN SvcRaise("InvalidBase", "none")
    ELSE IF number = <<>> THEN SvcRaise("EmptyInput", "none")
    ELSE LET converted_number == _convert(_clean_number(number), from_base, to_base, prec)
         IN  IF converted_number.ok
             THEN [ok |-> TRUE, val |-> converted_number.val, err |-> "none",
                   algorithm_used |-> _get_algorithm_used(from_base, to_base),
                   path |-> converted_number.path]
             ELSE SvcRaise(converted_number.err, converted_number.path)

(***************************************************************************)
(* State machine: one call of each engine on the same arguments.           *)
(***************************************************************************)
NoResult == [ok |-> FALSE, val |-> <<>>, err |-> "pending", path |-> "none"]

(* the parts of the state a specification does not use stay as they are here *)
EngineOff ==
    /\ numero = <<>> /\ base_origen = 10 /\ base_destino = 10 /\ precision = 0
    /\ pc = "off" /\ cli = NoResult /\ svc = NoResult
CallsOff == tables = <<>> /\ frames = <<>> /\ locals = <<>> /\ remembered = <<>>
LoopOff == loop = [phase |-> "off"]
ApiOff == api = [phase |-> "off"]

Init ==
    /\ CallsOff /\ LoopOff /\ ApiOff
    /\ numero \in Numerals
    /\ base_origen \in Bases
    /\ base_destino \in Bases
    /\ precision \in Precisions
    /\ pc = "ready"
    /\ cli = NoResult
    /\ svc = SvcRaise("pending", "none")

Convertir ==
    /\ pc = "ready"
    /\ cli' = convertir(numero, base_origen, base_destino, precision)
    /\ pc' = "cli_done"
    /\ UNCHANGED <<numero, base_origen, base_destino, precision, svc>>
    /\ UNCHANGED <<callVars, loop, api>>

ConvertNumber ==
    /\ pc = "cli_done"
    /\ svc' = convert_number(numero, base_origen, base_destino, precision)
    /\ pc' = "done"
    /\ UNCHANGED <<numero, base_origen, base_destino, precision, cli>>
    /\ UNCHANGED <<callVars, loop, api>>

Next == Convertir \/ ConvertNumber

Spec == Init /\ [][Next]_vars

(***************************************************************************)
(* Interleaved calls.  Each caller runs calls of either engine, statement  *)
(* by statement; the statements of different callers interleave freely.    *)
(* tables holds the module-level SYMBOLS and SYMBOL_TO_VAL; locals[c] is   *)
(* the variable `numero` / `clean_number` of the call caller c is running. *)
(***************************************************************************)
NumCallers == 2

Callers == 1..NumCallers

(* the calls a caller may make *)
CallInputs ==
    { [engine |-> "cli", numero |-> <<" ","f","f",",","8"," ">>, bo |-> 16, bd |-> 10, prec |-> 1],
      [engine |-> "cli", numero |-> <<"1","1",".","1">>, bo |-> 2, bd |-> 8, prec |-> 1],
      [engine |-> "cli", numero |-> <<"9">>, bo |-> 8, bd |-> 10, prec |-> 0],
      [engine |-> "svc", numero |-> <<" ","f","f",",","8"," ">>, bo |-> 16, bd |-> 10, prec |-> 1],
      [engine |-> "svc", numero |-> <<"f","f">>, bo |-> 16, bd |-> 2, prec |-> 1],
      [engine |-> "svc", numero |-> <<>>, bo |-> 10, bd |-> 17, prec |-> 0] }

NoCall == [engine |-> "none", numero |-> <<>>, bo |-> 0, bd |-> 0, prec |-> 0]

IdleFrame == [pc |-> "idle", key |-> NoCall, result |-> NoResult]

NothingRemembered == [key |-> NoCall, result |-> NoResult]

(* one slot for all callers: `numero` as a module-level variable *)
numero_slot_shared(c) == 1

(* where the `numero` of caller c's call lives: in the frame of that call *)
numero_slot(c) == c

CallsInit ==
    /\ EngineOff /\ LoopOff /\ ApiOff
    /\ tables = [SYMBOLS |-> SYMBOLS, SYMBOL_TO_VAL |-> SYMBOL_TO_VAL]
    /\ frames = [c \in Callers |-> IdleFrame]
    /\ locals = [c \in Callers |-> <<>>]
    /\ remembered = NothingRemembered

CallFrame == UNCHANGED <<engineVars, loop, api, tables>>

(* the call is made: the parameter numero is bound to the argument *)
CallBegin(c, k) ==
    /\ frames[c].pc = "idle"
    /\ frames' = [frames EXCEPT ![c] = [pc |-> "validate", key |-> k, result |-> NoResult]]
    /\ locals' = [locals EXCEPT ![numero_slot(c)] = k.numero]
    /\ UNCHANGED remembered /\ CallFrame

(* validar_base(base_origen); validar_base(base_destino), and in the service
   the test `if not number` that follows *)
CallValidate(c) ==
    /\ frames[c].pc = "validate"
    /\ LET k == frames[c].key
           raised == IF k.engine = "cli"
                     THEN IF ~validar_base(k.bo) \/ ~validar_base(k.bd)
                          THEN Via("none", Raise("InvalidBase")) ELSE NoResult
                     ELSE IF ~_validate_base(k.bo) \/ ~_validate_base(k.bd)
                          THEN SvcRaise("InvalidBase", "none")
                          ELSE IF locals[numero_slot(c)] = <<>>
                               THEN SvcRaise("EmptyInput", "none") ELSE NoResult
       IN  frames' = [frames EXCEPT ![c] =
                        IF raised = NoResult THEN [@ EXCEPT !.pc = "clean"]
                        ELSE [@ EXCEPT !.pc = "return", !.result = raised]]
    /\ UNCHANGED <<locals, remembered>> /\ CallFrame

(* the cleaned numeral written to every caller's variable *)
CallClean_global(c) ==
    /\ frames[c].pc = "clean"
    /\ locals' = [d \in Callers |->
                    IF frames[c].key.engine = "cli" THEN limpiar_numero(locals[c])
                    ELSE _clean_number(locals[c])]
    /\ frames' = [frames EXCEPT ![c].pc = "convert"]
    /\ UNCHANGED remembered /\ CallFrame

(* numero = limpiar_numero(numero) / clean_number = self._clean_number(number) *)
CallClean(c) ==
    /\ frames[c].pc = "clean"
    /\ locals' = [locals EXCEPT ![numero_slot(c)] =
                    IF frames[c].key.engine = "cli" THEN limpiar_numero(@) ELSE _clean_number(@)]
    /\ frames' = [frames EXCEPT ![c].pc = "convert"]
    /\ UNCHANGED remembered /\ CallFrame

(* the dispatch of convertir on the cleaned numero; in the service the call
   of _convert on clean_number and the result dictionary *)
CallConvert(c) ==
    /\ frames[c].pc = "convert"
    /\ LET k == frames[c].key
           num == locals[numero_slot(c)]
           path == cli_path(k.bo, k.bd)
           converted_number == _convert(num, k.bo, k.bd, k.prec)
           out == IF k.engine = "cli"
                  THEN IF path = "bin_to_base_direct" THEN Via(path, bin_to_base_direct(num, k.bd))
                       ELSE IF path = "base_to_bin_direct" THEN Via(path, base_to_bin_direct(num, k.bo))
                       ELSE Via(path, cli_general(num, k.bo, k.bd, k.prec))
                  ELSE IF converted_number.ok
                       THEN [ok |-> TRUE, val |-> converted_number.val, err |-> "none",
                             algorithm_used |-> _get_algorithm_used(k.bo, k.bd),
                             path |-> converted_number.path]
                       ELSE SvcRaise(converted_number.err, converted_number.path)
       IN  frames' = [frames EXCEPT ![c] = [@ EXCEPT !.pc = "return", !.result = out]]
    /\ UNCHANGED <<locals, remembered>> /\ CallFrame

(* the call returns or raises; the caller may keep the outcome to compare a
   later call with *)
CallReturn(c) ==
    /\ frames[c].pc = "return"
    /\ frames' = [frames EXCEPT ![c] = IdleFrame]
    /\ UNCHANGED <<locals, remembered>> /\ CallFrame

CallReturnRemember(c) ==
    /\ frames[c].pc = "return"
    /\ remembered' = [key |-> frames[c].key, result |-> frames[c].result]
    /\ frames' = [frames EXCEPT ![c] = IdleFrame]
    /\ UNCHANGED locals /\ CallFrame

CallsNext ==
    \E c \in Callers :
        \/ \E k \in CallInputs : CallBegin(c, k)
        \/ CallValidate(c)
        \/ CallClean(c)
        \/ CallConvert(c)
        \/ CallReturn(c)
        \/ CallReturnRemember(c)

SpecCalls == CallsInit /\ [][CallsNext]_vars

(***************************************************************************)
(* The endpoint GET /math/number-converter: the query parameters are       *)
(* validated, a NumberConverterRequest is built from them, MathService     *)
(* delegates to the conversion service, and the outcome becomes an HTTP    *)
(* status.  api.errors holds the parameters a validation step rejected.    *)
(***************************************************************************)
ApiBases == 1..17

ApiPrecisions == {0, 1, 20, 100, 101}

ApiNumbers == {<<"1">>, <<"1","0","1">>, <<"G">>, <<>>}

(* Query(..., ge=2, le=16) and Field(..., ge=2, le=16) *)
base_in_bounds(v) == v >= 2 /\ v <= 16

(* Query(20, ge=1, le=100) and Field(default=20, ge=1, le=100) *)
precision_in_bounds(v) == v >= 1 /\ v <= 100

(* NumberConverterRequest.validate_bases: v in valid_bases *)
valid_bases == {2, 8, 10, 16}

validate_bases(v) == v \in valid_bases

ApiInit ==
    /\ EngineOff /\ CallsOff /\ LoopOff
    /\ \E n \in ApiNumbers, fb \in ApiBases, tb \in ApiBases, p \in ApiPrecisions :
         api = [phase |-> "received", number |-> n, from_base |-> fb, to_base |-> tb,
                precision |-> p, status |-> 0, errors |-> {}, detail |-> "none"]

ApiFrame == UNCHANGED <<engineVars, callVars, loop>>

Respond(status, errors, detail) ==
    api' = [api EXCEPT !.phase = "responded", !.status = status,
                       !.errors = errors, !.detail = detail]

(* the constraints of the Query parameters; a violation is answered with 422 *)
QueryValidation ==
    /\ api.phase = "received"
    /\ LET errors == {f \in {"from_base"} : ~base_in_bounds(api.from_base)}
                     \cup {f \in {"to_base"} : ~base_in_bounds(api.to_base)}
                     \cup {f \in {"precision"} : ~precision_in_bounds(api.precision)}
       IN  IF errors # {} THEN Respond(422, errors, "query")
           ELSE api' = [api EXCEPT !.phase = "validated"]
    /\ ApiFrame

(* request = NumberConverterRequest(...): the Field constraints and
   validate_bases; the ValidationError is caught by `except Exception` *)
BuildRequest ==
    /\ api.phase = "validated"
    /\ LET errors == {f \in {"from_base"} : ~(base_in_bounds(api.from_base) /\ validate_bases(api.from_base))}
                     \cup {f \in {"to_base"} : ~(base_in_bounds(api.to_base) /\ validate_bases(api.to_base))}
                     \cup {f \in {"precision"} : ~precision_in_bounds(api.precision)}
       IN  IF errors # {} THEN Respond(500, errors, "NumberConverterRequest")
           ELSE api' = [api EXCEPT !.phase = "request"]
    /\ ApiFrame

(* math_service.convert_number(request): a failed conversion is a
   BusinessLogicException, answered with 400.  After a successful one the
   NumberConversionResult is built with analysis_date = None (the result
   dictionary has no "analysis_timestamp"), which the datetime field
   refuses; that error is wrapped in a BusinessLogicException as well. *)
MathServiceConvert ==
    /\ api.phase = "request"
    /\ LET conversion_result == convert_number(api.number, api.from_base, api.to_base, api.precision)
       IN  IF ~conversion_result.ok THEN Respond(400, {}, conversion_result.err)
           ELSE Respond(400, {}, "analysis_date")
    /\ ApiFrame

ApiNext == QueryValidation \/ BuildRequest \/ MathServiceConvert

SpecApi == ApiInit /\ [][ApiNext]_vars

(***************************************************************************)
(* The two loops of desde_decimal_fraction / _from_decimal_fraction, one   *)
(* iteration per step.  loop.ent is the quotient still to be divided,      *)
(* loop.frnum / loop.den the remainder fr, loop.count the number of        *)
(* fractional digits emitted so far.                                       *)
(***************************************************************************)
LoopValues ==
    { Fraction(0, 1), Fraction(1, 10), Fraction(5, 2), Fraction(255, 1),
      Fraction(7, 8), Fraction(1, 3), Fraction(1023, 4) }

LoopBases == {2, 3, 8, 10, 16}

LoopPrecisions == {0, 1, 2, 10}

(* the loop test with count <= precision *)
frac_continues_one_more(frnum, count, prec) == frnum # 0 /\ count <= prec

(* while fr != 0 and count < precision; in the service range(precision)
   with the break on temp_frac == 0 *)
frac_continues(frnum, count, prec) == frnum # 0 /\ count < prec

LoopInit ==
    /\ EngineOff /\ CallsOff /\ ApiOff
    /\ \E e \in {"cli", "svc"}, v \in LoopValues, b \in LoopBases, p \in LoopPrecisions :
         loop = [phase |-> "int", engine |-> e, value |-> v, base |-> b, prec |-> p,
                 ent |-> v.num \div v.den, frnum |-> v.num - (v.num \div v.den) * v.den,
                 den |-> v.den, count |-> 0, out_ent |-> <<>>, out_frac |-> <<>>,
                 result |-> <<>>]

LoopFrame == UNCHANGED <<engineVars, callVars, api>>

(* digits.append(simbolo_valor(ent % base_dest)); ent //= base_dest *)
IntStep ==
    /\ loop.phase = "int" /\ loop.ent > 0
    /\ loop' = [loop EXCEPT !.out_ent = <<simbolo_valor(loop.ent % loop.base)>> \o @,
                            !.ent = @ \div loop.base]
    /\ LoopFrame

(* the integer digits are complete ("0" when there is none); the service
   returns here when the fractional part is zero *)
IntDone ==
    /\ loop.phase = "int" /\ loop.ent = 0
    /\ LET out == IF loop.out_ent = <<>> THEN <<"0">> ELSE loop.out_ent
       IN  loop' = IF loop.engine = "svc" /\ loop.frnum = 0
                   THEN [loop EXCEPT !.out_ent = out, !.phase = "done", !.result = out]
                   ELSE [loop EXCEPT !.out_ent = out, !.phase = "frac"]
    /\ LoopFrame

(* fr *= base_dest; d = floor(fr); out_frac += simbolo_valor(d); fr -= d;
   count += 1 *)
FracStep ==
    /\ loop.phase = "frac"
    /\ frac_continues(loop.frnum, loop.count, loop.prec)
    /\ loop' = [loop EXCEPT !.out_frac = @ \o <<simbolo_valor((loop.frnum * loop.base) \div loop.den)>>,
                            !.frnum = (@ * loop.base) % loop.den,
                            !.count = @ + 1]
    /\ LoopFrame

(* the return statement of the routine *)
Finish ==
    /\ loop.phase = "frac"
    /\ ~frac_continues(loop.frnum, loop.count, loop.prec)
    /\ LET frac == IF loop.engine = "cli" THEN loop.out_frac ELSE rstrip(loop.out_frac, {"0"})
       IN  loop' = [loop EXCEPT !.phase = "done",
                      !.result = IF loop.out_frac = <<>> THEN loop.out_ent
                                 ELSE loop.out_ent \o <<".">> \o frac]
    /\ LoopFrame

LoopNext == IntStep \/ IntDone \/ FracStep \/ Finish

(* a call that has started keeps executing its statements *)
SpecLoop == LoopInit /\ [][LoopNext]_vars /\ WF_vars(LoopNext)

(***************************************************************************)
(* Vocabulary of the properties.                                           *)
(***************************************************************************)
BasesValid == base_origen \in 2..16 /\ base_destino \in 2..16

DirectPairs == {<<2, 8>>, <<2, 16>>, <<8, 2>>, <<16, 2>>}

IsDirectPair == <<base_origen, base_destino>> \in DirectPairs

(* the numeral of the call after normalization *)
Normalized == limpiar_numero(numero)

IsDigit(ch) == ch \in DOMAIN SYMBOL_TO_VAL

DigitVal(ch) == SYMBOL_TO_VAL[ch]

DotCount(s) == Cardinality({i \in 1..Len(s) : s[i] = "."})

(* at most one separator, at least one digit, every digit below the base *)
ValidNumeral(s, B) ==
    /\ DotCount(s) <= 1
    /\ \E i \in 1..Len(s) : s[i] # "."
    /\ \A i \in 1..Len(s) : s[i] = "." \/ (IsDigit(s[i]) /\ DigitVal(s[i]) < B)

HasOutOfRangeDigit(s, B) == \E i \in 1..Len(s) : IsDigit(s[i]) /\ DigitVal(s[i]) >= B

IntPart(s) == IF find_dot(s, 1) = 0 THEN s ELSE SubSeq(s, 1, find_dot(s, 1) - 1)

FracPart(s) == IF find_dot(s, 1) = 0 THEN <<>> ELSE SubSeq(s, find_dot(s, 1) + 1, Len(s))

(* number of digits after the separator *)
FracLen(s) == Len(FracPart(s))

RECURSIVE SumUpTo(_, _)
SumUpTo(f, n) == IF n = 0 THEN 0 ELSE f[n] + SumUpTo(f, n - 1)

(* The value a numeral denotes in base B, as a Fraction over B^FracLen:
   digit i of the integer part (from the right, from 0) weighs B^i, digit j
   of the fractional part (from the left, from 0) weighs B^-(j+1). *)
SpecValue(s, B) ==
    LET ip == IntPart(s)
        fp == FracPart(s)
        den == pow(B, Len(fp))
        isum == SumUpTo([k \in 1..Len(ip) |-> DigitVal(ip[k]) * pow(B, Len(ip) - k)], Len(ip))
        fsum == SumUpTo([k \in 1..Len(fp) |-> DigitVal(fp[k]) * pow(B, Len(fp) - k)], Len(fp))
    IN  Fraction(isum * den + fsum, den)

(* equality of two Fractions by value *)
SameValue(a, b) ==
    /\ a.num \div a.den = b.num \div b.den
    /\ (a.num % a.den) * b.den = (b.num % b.den) * a.den

(* what is left of the fractional part of v after p digits in base B *)
RECURSIVE RemainderAfter(_, _, _, _)
RemainderAfter(frnum, den, B, p) ==
    IF p = 0 THEN frnum ELSE RemainderAfter((frnum * B) % den, den, B, p - 1)

(* v has a base-B expansion of at most p fractional digits *)
TerminatesWithin(v, B, p) == RemainderAfter(v.num % v.den, v.den, B, p) = 0

(* leading zeros of the integer part and trailing zeros of the fractional
   part removed, one integer digit kept, no separator before an empty fraction *)
Canonical(s) ==
    LET ip == or_zero(lstrip(IntPart(s), {"0"}))
        fp == rstrip(FracPart(s), {"0"})
    IN  IF fp = <<>> THEN ip ELSE ip \o <<".">> \o fp

CliReturned == pc # "ready"
SvcReturned == pc = "done"

(***************************************************************************)
(* C1 - Digit invariant: when both bases are in [2,16] and the normalized  *)
(* numeral contains a recognized digit whose value is >= the source base,  *)
(* the call fails and returns no converted number, on the direct and on    *)
(* the general path, in both engines.                                      *)
(***************************************************************************)
C1_DigitInvariant ==
    (BasesValid /\ HasOutOfRangeDigit(Normalized, base_origen)) =>
        /\ CliReturned => ~cli.ok
        /\ SvcReturned => ~svc.ok

(***************************************************************************)
(* C2 - Base invariant: when the source or the target base is outside      *)
(* [2,16] the call fails with the invalid-base error, whatever the numeral *)
(* (empty, or with invalid digits), and no conversion branch is entered.   *)
(***************************************************************************)
C2_BaseInvariant ==
    ~BasesValid =>
        /\ CliReturned => (~cli.ok /\ cli.err = "InvalidBase" /\ cli.path = "none")
        /\ SvcReturned => (~svc.ok /\ svc.err = "InvalidBase" /\ svc.path = "none")

C2_Witness ==
    /\ pc = "done"
    /\ base_origen = 17
    /\ numero = <<>>
    /\ cli.err = "InvalidBase"
    /\ svc.err = "InvalidBase"

(***************************************************************************)
(* C3 - Precision cap: every number converted on the general path has at   *)
(* most `precision` digits after the separator, also when the exact value  *)
(* needs more digits in the target base.                                   *)
(***************************************************************************)
C3_PrecisionCap ==
    /\ (CliReturned /\ cli.path = "general" /\ cli.ok) => FracLen(cli.val) <= precision
    /\ (SvcReturned /\ svc.path = "general" /\ svc.ok) => FracLen(svc.val) <= precision

C3_Witness ==
    /\ pc = "done"
    /\ cli.path = "general" /\ cli.ok
    /\ svc.path = "general" /\ svc.ok
    /\ ValidNumeral(Normalized, base_origen)
    /\ precision >= 1
    /\ ~TerminatesWithin(SpecValue(Normalized, base_origen), base_destino, precision)
    /\ FracLen(cli.val) = precision

(***************************************************************************)
(* C4 - Direct-path/general-path agreement: for a fast-path pair of bases  *)
(* and a numeral valid for the source base, the call (which runs the       *)
(* direct routine) returns the string that the general path returns for    *)
(* the same numeral, bases and precision.                                  *)
(***************************************************************************)
C4_DirectGeneralAgreement ==
    (pc = "done" /\ BasesValid /\ IsDirectPair /\ ValidNumeral(Normalized, base_origen)) =>
        /\ LET g == cli_general(Normalized, base_origen, base_destino, precision)
           IN  cli.ok /\ g.ok /\ cli.val = g.val
        /\ LET g == svc_general(Normalized, base_origen, base_destino, precision)
           IN  svc.ok /\ g.ok /\ svc.val = g.val

(***************************************************************************)
(* C5 - Round-trip exactness: for a numeral n valid in base B1 whose value *)
(* has at most `precision` fractional digits in base B2, converting n from *)
(* B1 to B2 and the result back from B2 to B1 (with a precision of the     *)
(* length of n, which suffices) gives n in canonical form.                 *)
(***************************************************************************)
C5_RoundTrip ==
    (/\ pc = "done"
     /\ BasesValid
     /\ ValidNumeral(Normalized, base_origen)
     /\ TerminatesWithin(SpecValue(Normalized, base_origen), base_destino, precision)) =>
        /\ cli.ok
        /\ LET back == convertir(cli.val, base_destino, base_origen, Len(numero))
           IN  back.ok /\ back.val = Canonical(Normalized)
        /\ svc.ok
        /\ LET back == convert_number(svc.val, base_destino, base_origen, Len(numero))
           IN  back.ok /\ back.val = Canonical(Normalized)

(***************************************************************************)
(* C6 - General-path value correctness: for a numeral n valid in base B1   *)
(* and a pair of bases handled by the general path, whenever the value of  *)
(* n (sum of digit * B1^i, and digit * B1^-(j+1)) has at most `precision`  *)
(* fractional digits in base B2, the converted number is a valid base-B2   *)
(* numeral denoting exactly that value; "1010" from 2 to 10 is "10" and    *)
(* "10.1" from 2 to 10 with precision 5 is "2.5".                          *)
(***************************************************************************)
ExactIn(r, B2, v) == r.ok /\ ValidNumeral(r.val, B2) /\ SameValue(SpecValue(r.val, B2), v)

C6_ValueCorrect ==
    /\ (/\ BasesValid /\ ~IsDirectPair
        /\ ValidNumeral(Normalized, base_origen)
        /\ TerminatesWithin(SpecValue(Normalized, base_origen), base_destino, precision)) =>
           /\ CliReturned => ExactIn(cli, base_destino, SpecValue(Normalized, base_origen))
           /\ SvcReturned => ExactIn(svc, base_destino, SpecValue(Normalized, base_origen))
    /\ (numero = <<"1","0","1","0">> /\ base_origen = 2 /\ base_destino = 10) =>
           /\ CliReturned => cli.val = <<"1","0">>
           /\ SvcReturned => svc.val = <<"1","0">>
    /\ (numero = <<"1","0",".","1">> /\ base_origen = 2 /\ base_destino = 10 /\ precision = 5) =>
           /\ CliReturned => cli.val = <<"2",".","5">>
           /\ SvcReturned => svc.val = <<"2",".","5">>

C6_Witness ==
    /\ pc = "done"
    /\ numero = <<"1","0",".","1">> /\ base_origen = 2 /\ base_destino = 10 /\ precision = 5
    /\ cli.val = <<"2",".","5">>
    /\ svc.val = <<"2",".","5">>

(***************************************************************************)
(* C7 - Empty input: with both bases in [2,16], a numeral that is empty    *)
(* after normalization makes the call fail with the empty-input error; no  *)
(* converted number is returned.                                           *)
(***************************************************************************)
C7_EmptyInput ==
    (BasesValid /\ Normalized = <<>>) =>
        /\ CliReturned => ~cli.ok
        /\ SvcReturned => (~svc.ok /\ svc.err = "EmptyInput")

(***************************************************************************)
(* C8 - General-path output form: a number converted on the general path   *)
(* never ends in the separator, and never ends in "0" after a separator.   *)
(***************************************************************************)
WellFormedFraction(s) ==
    find_dot(s, 1) = 0 \/ (s[Len(s)] # "." /\ s[Len(s)] # "0")

C8_OutputForm ==
    /\ (CliReturned /\ cli.path = "general" /\ cli.ok) => WellFormedFraction(cli.val)
    /\ (SvcReturned /\ svc.path = "general" /\ svc.ok) => WellFormedFraction(svc.val)

(***************************************************************************)
(* C9 - Path selection: with both bases in [2,16], the direct routine runs *)
(* exactly for the pairs (2,8), (2,16), (8,2), (16,2) and the general path *)
(* for every other pair, same-base pairs included; the algorithm_used of a *)
(* result names the path that ran.                                         *)
(***************************************************************************)
C9_PathSelection ==
    BasesValid =>
        /\ CliReturned => (cli.path # "general" <=> IsDirectPair)
        /\ CliReturned => cli.path \in {"general", "bin_to_base_direct", "base_to_bin_direct"}
        /\ SvcReturned /\ svc.err # "EmptyInput" =>
             /\ svc.path # "general" <=> IsDirectPair
             /\ svc.path \in {"general", "_bin_to_base_direct", "_base_to_bin_direct"}
        /\ SvcReturned /\ svc.ok =>
             svc.algorithm_used = IF svc.path = "general"
                                  THEN "general_decimal_intermediate - O(n) performance"
                                  ELSE "direct_bit_grouping - O(1) performance"

C9_Witness ==
    /\ pc = "done"
    /\ base_origen = 10 /\ base_destino = 10
    /\ svc.ok /\ svc.path = "general" /\ cli.ok /\ cli.path = "general"

(***************************************************************************)
(* C10 - Scenario convert("2B8", 16, 8).                                   *)
(* As claimed: the call uses the direct path.                              *)
(* As amended: the call uses the general path (16 -> 8 is not a fast-path  *)
(* pair) and returns "1270".                                               *)
(***************************************************************************)
Scenario2B8 == numero = <<"2","B","8">> /\ base_origen = 16 /\ base_destino = 8

C10_Original ==
    Scenario2B8 =>
        /\ CliReturned => cli.path # "general"
        /\ SvcReturned => (svc.path # "general"
                           /\ svc.algorithm_used = "direct_bit_grouping - O(1) performance")

C10_Amended ==
    Scenario2B8 =>
        /\ CliReturned => (cli.path = "general" /\ cli.ok /\ cli.val = <<"1","2","7","0">>)
        /\ SvcReturned => (/\ svc.path = "general" /\ svc.ok /\ svc.val = <<"1","2","7","0">>
                           /\ svc.algorithm_used = "general_decimal_intermediate - O(n) performance")

C10_Witness == pc = "done" /\ Scenario2B8 /\ svc.ok /\ cli.ok

(***************************************************************************)
(* C11 - algorithm_used of a successful conversion.                        *)
(* As claimed: it is exactly "direct_bit_grouping" or                      *)
(* "general_decimal_intermediate".                                         *)
(* As amended: it is exactly "direct_bit_grouping - O(1) performance" or   *)
(* "general_decimal_intermediate - O(n) performance".                      *)
(***************************************************************************)
C11_Original ==
    (SvcReturned /\ svc.ok) =>
        svc.algorithm_used \in {"direct_bit_grouping", "general_decimal_intermediate"}

C11_Amended ==
    (SvcReturned /\ svc.ok) =>
        svc.algorithm_used \in {"direct_bit_grouping - O(1) performance",
                                "general_decimal_intermediate - O(n) performance"}

C11_Witness ==
    /\ pc = "done" /\ svc.ok
    /\ numero = <<"F","F">> /\ base_origen = 16 /\ base_destino = 2
    /\ svc.algorithm_used = "direct_bit_grouping - O(1) performance"

RunAlone(k) ==
    IF k.engine = "cli" THEN convertir(k.numero, k.bo, k.bd, k.prec)
    ELSE convert_number(k.numero, k.bo, k.bd, k.prec)

TablesIntact == tables = [SYMBOLS |-> SYMBOLS, SYMBOL_TO_VAL |-> SYMBOL_TO_VAL]

OutcomeAsAlone == \A c \in Callers : frames[c].pc = "return" => frames[c].result = RunAlone(frames[c].key)

OneCallerMoves == \A c, d \in Callers : (c # d /\ frames'[c] # frames[c]) => frames'[d] = frames[d]

C13_NoInterference == [](TablesIntact /\ OutcomeAsAlone) /\ [][OneCallerMoves /\ tables' = tables]_vars

C13_Witness ==
    /\ frames[1].pc = "return" /\ frames[1].result.ok
    /\ frames[2].pc = "convert" /\ frames[2].key # frames[1].key
    /\ locals[1] # locals[2]

(***************************************************************************)
(* C14 - Invalid characters abort the conversion: with both bases in       *)
(* [2,16], a numeral whose normalized form contains a character that is    *)
(* neither one of the 16 digit symbols nor the separator makes both        *)
(* engines fail, on the direct and on the general path; no converted       *)
(* number is produced.                                                     *)
(***************************************************************************)
HasInvalidChar(s) == \E i \in 1..Len(s) : ~IsDigit(s[i]) /\ s[i] # "."

C14_InvalidCharAborts ==
    (SvcReturned /\ BasesValid /\ HasInvalidChar(Normalized)) => (~cli.ok /\ ~svc.ok)

(***************************************************************************)
(* C15 - Normalization invariance: normalization is total, and each engine *)
(* gives for a numeral the outcome it gives for the normalized numeral     *)
(* (upper-cased, ',' replaced by '.', surrounding whitespace removed), so  *)
(* that variants with the same normalized form have the same outcome.      *)
(***************************************************************************)
C15_NormalizationInvariance ==
    SvcReturned =>
        /\ cli = convertir(Normalized, base_origen, base_destino, precision)
        /\ svc = convert_number(Normalized, base_origen, base_destino, precision)

(***************************************************************************)
(* C16 - Empty integer part: with both bases in [2,16], for a numeral "."f *)
(* whose fractional digits f are valid in the source base, each engine     *)
(* succeeds and returns what it returns for "0."f, on every path.          *)
(***************************************************************************)
StartsWithSeparator(s) == Len(s) >= 2 /\ s[1] = "."

C16_EmptyIntegerPart ==
    (SvcReturned /\ BasesValid /\ StartsWithSeparator(numero)
        /\ ValidNumeral(numero, base_origen)) =>
        /\ cli.ok /\ cli = convertir(<<"0">> \o numero, base_origen, base_destino, precision)
        /\ svc.ok /\ svc = convert_number(<<"0">> \o numero, base_origen, base_destino, precision)

(***************************************************************************)
(* C17 - Bases accepted by the interface: a request to the conversion      *)
(* endpoint whose from_base and to_base are both in [2,16] is not rejected *)
(* because of its bases by any validation step.                            *)
(***************************************************************************)
C17_BasesAccepted ==
    (api.phase = "responded" /\ api.from_base \in 2..16 /\ api.to_base \in 2..16) =>
        api.errors \cap {"from_base", "to_base"} = {}

(***************************************************************************)
(* C18 - Termination: every run of the digit loops reaches the return      *)
(* statement; each iteration of the integer loop strictly decreases the    *)
(* quotient, which stays non-negative; the fractional loop makes at most   *)
(* `precision` steps and stops before that exactly when the remainder is   *)
(* zero; the returned string is the one the routine computes; 1/10 to      *)
(* base 2 with precision 10 returns after exactly 10 fractional digits.    *)
(***************************************************************************)
LoopDone == loop.phase = "done"

FracStepsBounded == loop.count <= loop.prec /\ Len(loop.out_frac) = loop.count

StopsExactlyOnZero == LoopDone => (loop.frnum = 0 \/ loop.count = loop.prec)

ReturnsRoutineResult ==
    LoopDone =>
        loop.result = IF loop.engine = "cli"
                      THEN desde_decimal_fraction(loop.value, loop.base, loop.prec)
                      ELSE _from_decimal_fraction(loop.value, loop.base, loop.prec)

OneTenthToBinary ==
    (LoopDone /\ loop.value = Fraction(1, 10) /\ loop.base = 2 /\ loop.prec = 10) =>
        loop.count = 10 /\ loop.frnum # 0

QuotientDecreases == IntStep => (loop'.ent < loop.ent /\ loop'.ent >= 0)

C18_Termination ==
    /\ <>LoopDone
    /\ [](FracStepsBounded /\ StopsExactlyOnZero /\ ReturnsRoutineResult /\ OneTenthToBinary)
    /\ [][QuotientDecreases]_vars

C18_Witness ==
    /\ LoopDone /\ loop.value = Fraction(1, 10) /\ loop.base = 2 /\ loop.prec = 10
    /\ loop.count = 10 /\ loop.frnum # 0
    /\ loop.result = <<"0",".","0","0","0","1","1","0","0","1","1">>

(***************************************************************************)
(* C19 - Direct binary -> octal/hex: for a valid binary numeral, with or   *)
(* without fractional bits, the direct routine of each engine returns a    *)
(* valid numeral of the target base denoting exactly the value of the      *)
(* input; binary "0.1" gives octal "0.4" and hexadecimal "0.8".            *)
(***************************************************************************)
C19_BinToBaseDirect ==
    (SvcReturned /\ base_origen = 2 /\ base_destino \in {8, 16}
        /\ ValidNumeral(Normalized, 2)) =>
        /\ ExactIn(cli, base_destino, SpecValue(Normalized, 2))
        /\ ExactIn(svc, base_destino, SpecValue(Normalized, 2))
        /\ numero = <<"0",".","1">> =>
              LET expected == IF base_destino = 8 THEN <<"0",".","4">> ELSE <<"0",".","8">>
              IN  cli.val = expected /\ svc.val = expected

(***************************************************************************)
(* C20 - Direct octal/hex -> binary: for a valid octal or hexadecimal      *)
(* numeral, with or without a fractional part, the direct routine of each  *)
(* engine returns a binary numeral denoting exactly the value of the       *)
(* input; "FF" from 16 to 2 is "11111111".                                 *)
(***************************************************************************)
C20_BaseToBinDirect ==
    (SvcReturned /\ base_origen \in {8, 16} /\ base_destino = 2
        /\ ValidNumeral(Normalized, base_origen)) =>
        /\ ExactIn(cli, 2, SpecValue(Normalized, base_origen))
        /\ ExactIn(svc, 2, SpecValue(Normalized, base_origen))
        /\ (numero = <<"F","F">> /\ base_origen = 16) =>
              /\ cli.val = <<"1","1","1","1","1","1","1","1">> /\ cli.path = "base_to_bin_direct"
              /\ svc.val = <<"1","1","1","1","1","1","1","1">> /\ svc.path = "base_to_bin_direct"

(***************************************************************************)
(* C21 - Direct-path output is canonical: a number converted by a direct   *)
(* routine of either engine has an integer part of at least one digit with *)
(* no leading zero (except the single digit "0"), no trailing zero in the  *)
(* fractional part and no separator before an empty fraction; binary       *)
(* "0001.1000" to base 16 gives "1.8" and binary "000" gives "0".          *)
(***************************************************************************)
C21_DirectCanonical ==
    (SvcReturned /\ BasesValid /\ IsDirectPair) =>
        /\ cli.ok => cli.val = Canonical(cli.val)
        /\ svc.ok => svc.val = Canonical(svc.val)
        /\ (numero = <<"0","0","0","1",".","1","0","0","0">> /\ base_destino = 16) =>
              (cli.ok /\ cli.val = <<"1",".","8">> /\ svc.ok /\ svc.val = <<"1",".","8">>)
        /\ (numero = <<"0","0","0">> /\ base_origen = 2) =>
              (cli.ok /\ cli.val = <<"0">> /\ svc.ok /\ svc.val = <<"0">>)

(***************************************************************************)
(* C22 - Conversion composes through base 10: with both bases in [2,16],   *)
(* for a valid integer numeral n of the source base, each engine returns   *)
(* for (n, B1, B2) the number it returns when n is first converted to base *)
(* 10 and that result from base 10 to B2; "2B8" from 16 to 8 is "1270"     *)
(* either way.                                                             *)
(***************************************************************************)
IsIntegerNumeral(s, B) == ValidNumeral(s, B) /\ DotCount(s) = 0

C22_ComposesThroughTen ==
    (SvcReturned /\ BasesValid /\ IsIntegerNumeral(Normalized, base_origen)) =>
        /\ LET mid == convertir(numero, base_origen, 10, precision)
               two == convertir(mid.val, 10, base_destino, precision)
           IN  cli.ok /\ mid.ok /\ two.ok /\ two.val = cli.val
        /\ LET mid == convert_number(numero, base_origen, 10, precision)
               two == convert_number(mid.val, 10, base_destino, precision)
           IN  svc.ok /\ mid.ok /\ two.ok /\ two.val = svc.val

C22_Witness ==
    /\ SvcReturned /\ Scenario2B8
    /\ convertir(numero, base_origen, 10, precision).val = <<"6","9","6">>
    /\ convert_number(<<"6","9","6">>, 10, base_destino, precision).val = <<"1","2","7","0">>
    /\ cli.val = <<"1","2","7","0">> /\ svc.val = <<"1","2","7","0">>

(***************************************************************************)
(* C23 - Output digits respect the target base: with both bases in         *)
(* [2,16], every number an engine returns, on any path, has at most one    *)
(* separator and only digits below the target base, and the same engine    *)
(* accepts it as a numeral of the target base; the conversion of a valid   *)
(* numeral never fails in the value-to-symbol lookup.                      *)
(***************************************************************************)
C23_OutputDigits ==
    (SvcReturned /\ BasesValid) =>
        /\ cli.ok => /\ ValidNumeral(cli.val, base_destino)
                     /\ convertir(cli.val, base_destino, base_destino, precision).ok
        /\ svc.ok => /\ ValidNumeral(svc.val, base_destino)
                     /\ convert_number(svc.val, base_destino, base_destino, precision).ok
        /\ ValidNumeral(Normalized, base_origen) =>
              (cli.err # "InvalidValue" /\ svc.err # "InvalidValue")

C23_Witness ==
    /\ SvcReturned /\ numero = <<"8">> /\ base_origen = 10 /\ base_destino = 2
    /\ cli.ok /\ svc.ok /\ cli.val = <<"1","0","0","0">> /\ svc.val = cli.val
    /\ convert_number(svc.val, 2, 2, precision).ok

(***************************************************************************)
(* C24 - Truncation, never rounding: on the general path, for a numeral    *)
(* valid in the source base with exact value v and a precision p, the      *)
(* value w of the converted number satisfies 0 <= v - w < B2^(-p), and     *)
(* the k-th fractional digit returned is floor(v * B2^k) mod B2, the k-th  *)
(* digit of the expansion of v.  (Stated for p <= MaxPrecision, where the  *)
(* products stay within the integers of the checker.)                      *)
(***************************************************************************)
ExpansionDigit(v, B, k) == (((v.num % v.den) * pow(B, k)) \div v.den) % B

Truncates(r, v, B, p) ==
    /\ r.ok /\ ValidNumeral(r.val, B) /\ FracLen(r.val) <= p
    /\ LET w == SpecValue(r.val, B)
           diff == v.num * w.den - w.num * v.den
       IN  0 <= diff /\ diff * pow(B, p) < v.den * w.den
    /\ \A k \in 1..FracLen(r.val) : DigitVal(FracPart(r.val)[k]) = ExpansionDigit(v, B, k)

C24_Truncation ==
    (SvcReturned /\ BasesValid /\ ~IsDirectPair /\ precision <= MaxPrecision
        /\ ValidNumeral(Normalized, base_origen)) =>
        /\ Truncates(cli, SpecValue(Normalized, base_origen), base_destino, precision)
        /\ Truncates(svc, SpecValue(Normalized, base_origen), base_destino, precision)

C24_Witness ==
    /\ SvcReturned /\ numero = <<"0",".","7">> /\ base_origen = 10 /\ base_destino = 8
    /\ precision = 1
    /\ cli.val = <<"0",".","5">> /\ svc.val = <<"0",".","5">>

(***************************************************************************)
(* C25 - Multiple separators never yield a result: with both bases in      *)
(* [2,16], a numeral containing more than one '.' or ',' (in any mix)      *)
(* makes both engines fail, on the direct and on the general path.         *)
(***************************************************************************)
SeparatorCount(s) == Cardinality({i \in 1..Len(s) : s[i] \in {".", ","}})

C25_MultipleSeparators ==
    (SvcReturned /\ BasesValid /\ SeparatorCount(numero) > 1) => (~cli.ok /\ ~svc.ok)

C25_Witness ==
    /\ SvcReturned /\ numero = <<"1",",","1",".","1">>
    /\ base_origen = 10 /\ base_destino = 16
    /\ cli.err = "InvalidDigit" /\ svc.err = "InvalidDigit"
    /\ cli.path = "general" /\ svc.path = "general"

(***************************************************************************)
(* C26 - The two implementations agree: for every numeral, pair of bases   *)
(* and precision, convertir and NumberConversionService._convert either    *)
(* both fail or both return the same converted string.                     *)
(***************************************************************************)
C26_EnginesAgree ==
    CliReturned =>
        LET converted == _convert(numero, base_origen, base_destino, precision)
        IN  /\ cli.ok <=> converted.ok
            /\ cli.ok => cli.val = converted.val

(***************************************************************************)
(* C27 - Same-base identity: for a base B in [2,16] and a numeral valid in *)
(* base B whose fractional part has at most `precision` digits, each       *)
(* engine returns for (n, B, B) the canonical form of n, and returns that  *)
(* result unchanged when it is converted from B to B again.                *)
(***************************************************************************)
C27_SameBaseIdentity ==
    (SvcReturned /\ BasesValid /\ base_origen = base_destino
        /\ ValidNumeral(Normalized, base_origen) /\ FracLen(Normalized) <= precision) =>
        /\ cli.ok /\ cli.val = Canonical(Normalized)
        /\ convertir(cli.val, base_origen, base_destino, precision) = cli
        /\ svc.ok /\ svc.val = Canonical(Normalized)
        /\ convert_number(svc.val, base_origen, base_destino, precision) = svc

C27_Witness ==
    /\ SvcReturned /\ numero = <<"0","0","0","1",".","1","0","0","0">>
    /\ base_origen = 8 /\ base_destino = 8 /\ precision = 5
    /\ cli.val = <<"1",".","1">> /\ svc.val = <<"1",".","1">>

(***************************************************************************)
(* C28 - The direct path ignores precision: for a fast-path pair of bases  *)
(* each engine has, for every numeral, the same outcome for every value of *)
(* precision (20, the default, included), and the fractional digits of a   *)
(* direct result are not cut to `precision`: the octal numeral 0.0000001,  *)
(* with 7 fractional digits, gives 21 binary fractional digits whatever    *)
(* the precision.                                                          *)
(***************************************************************************)
OctalSevenDigits == <<"0",".","0","0","0","0","0","0","1">>

C29_UniformError ==
    (SvcReturned /\ ~svc.ok) =>
        /\ svc.exception = "BusinessLogicException"
        /\ svc.operation = "number_conversion"
        /\ svc.val = <<>> /\ svc.algorithm_used = "none"

C29_Witness ==
    /\ SvcReturned /\ numero = <<"1",".","1">> /\ base_origen = 2 /\ base_destino = 8
    /\ ~svc.ok /\ svc.err = "ValueError" /\ raised_exception(svc.err) = "ValueError"
    /\ svc.exception = "BusinessLogicException"
====
